---- MODULE Spec2Model ----
(***************************************************************************)
(* A model of tap_pagerduty/streams.py: stream construction, the          *)
(* incremental and full-table sync loops, the PagerdutyResponse paginator  *)
(* and the retrying _get.                                                  *)
(*                                                                         *)
(* Time is counted in hours.  A timezone-aware datetime is a pair          *)
(* <<loc, off>>: its local wall-clock reading and its UTC offset; the        *)
(* instant it denotes is loc - off.  An ISO-8601 string is the triple      *)
(* <<loc, sgn, mag>> of its fixed-width local part, the sign character of  *)
(* its offset ("+" sorts before "-") and the offset's digits, so that      *)
(* strings compare as Python compares them: character by character.        *)
(***************************************************************************)
EXTENDS Integers, Sequences, FiniteSets, TLC

VARIABLES
    pc,                      \* position of the program
    stream,                  \* tap_stream_id of the stream class in use
    now,                     \* datetime.now(timezone.utc) at construction
    config,                  \* the config dict handed to __init__
    params,                  \* self.params
    state,                   \* self.state: the singer bookmarks
    current_bookmark_dtime,  \* sync() local
    since_dtime,             \* sync() local
    until_dtime,             \* sync() local
    running_bookmark_dtime,  \* sync() local
    top,                     \* the PagerdutyResponse of the stream's own endpoint
    record,                  \* the record the loop body is working on
    substream_params,        \* IncidentsStream.sync local dict
    sub,                     \* the PagerdutyResponse of a sub-resource
    err,                     \* the exception that ended the program, if any
    fetch,                   \* one _get call, attempt by attempt (SpecGet)
    requested,               \* whether any _get call has been issued yet
    windows,                 \* history: the (since, until) sent per window
    emittedKeys,             \* history: replication keys written by write_record
    emitCount,               \* history: write_record calls for the current record
    listed,                  \* history, full-table syncs: records listed per page
    writeLog,                \* history, full-table syncs: <<page, index>> per write_record
    run,                     \* 1 in the first sync of the stream, 2 in the one after it
    upstream,                \* in a second sync: the keys of the records the API holds
    synced                   \* the streams whose sync() ended earlier in this run of the tap

vars == <<pc, stream, now, config, params, state, current_bookmark_dtime,
          since_dtime, until_dtime, running_bookmark_dtime, top, record,
          substream_params, sub, err, fetch, requested, windows, emittedKeys,
          emitCount, listed, writeLog, run, upstream, synced>>

\* Python's None, for a value that is otherwise a datetime or a string.
None == <<>>

(***************************************************************************)
(* Bounds of the model.                                                    *)
(***************************************************************************)
\* Pages the API serves for one request sequence before more stops being true.
MaxPages == 2
\* Records in one page of a stream's endpoint.
MaxRecs == 2
\* HTTP attempts explored for one _get call.
MaxTries == 3

(***************************************************************************)
(* Datetimes and their ISO strings.                                        *)
(***************************************************************************)
DT(loc, off) == <<loc, off>>

Loc(d) == d[1]

Off(d) == d[2]

Instant(d) == Loc(d) - Off(d)

\* datetime.isoformat(): "YYYY-MM-DDTHH:MM:SS" followed by "+HH:MM" or "-HH:MM".
isoformat(d) == <<Loc(d), IF Off(d) >= 0 THEN 0 ELSE 1, IF Off(d) >= 0 THEN Off(d) ELSE -Off(d)>>

\* dateutil.parser.parse of such a string.
parse(s) == DT(s[1], IF s[2] = 0 THEN s[3] ELSE -s[3])

\* s < t on Python strings.
StrLess(s, t) ==
    \/ s[1] < t[1]
    \/ s[1] = t[1] /\ s[2] < t[2]
    \/ s[1] = t[1] /\ s[2] = t[2] /\ s[3] < t[3]

\* min(s, t) on Python strings: the first argument unless the second is smaller.
StrMin(s, t) == IF StrLess(t, s) THEN t ELSE s

\* d + timedelta(hours=h): the offset is kept.
Plus(d, h) == DT(Loc(d) + h, Off(d))

\* a < b and a >= b on aware datetimes compare instants.
DtLess(a, b) == Instant(a) < Instant(b)

\* max(a, b) on aware datetimes: the first argument unless the second is greater.
DtMax(a, b) == IF Instant(b) > Instant(a) THEN b ELSE a

(***************************************************************************)
(* The stream classes.                                                     *)
(***************************************************************************)
IncrementalStreams == {"incidents", "notifications", "oncalls"}
FullTableStreams == {"escalation_policies", "services", "schedules", "users"}
AVAILABLE_STREAMS == IncrementalStreams \cup FullTableStreams

replication_method(s) == IF s \in IncrementalStreams THEN "INCREMENTAL" ELSE "FULL_TABLE"

\* The parameter names the model distinguishes; each class lists more.
ParamKeys == {"limit", "offset", "since", "time_zone", "until", "query"}

valid_params(s) ==
    CASE s = "incidents" -> {"since", "until", "time_zone"}
      [] s = "notifications" -> {"since", "until", "time_zone"}
      [] s = "oncalls" -> {"since", "until", "time_zone"}
      [] s = "services" -> {"time_zone", "query"}
      [] OTHER -> {"query"}

required_params(s) == IF s \in IncrementalStreams THEN {"since", "until"} ELSE {}

\* request_range_limit = timedelta(days=7) or timedelta(days=89), in hours.
request_range_limit(s) == IF s = "incidents" THEN 7 * 24 ELSE 89 * 24

DefaultLimit == 100
SubstreamLimit == 100
MaxTime == 120

(***************************************************************************)
(* The inputs of a run.                                                    *)
(***************************************************************************)
\* The bookmark a previous run may have left, and the keys of the records the
\* API serves: before it, at the same instant (written with another offset),
\* and after it.
PriorBookmark == DT(50, 0)
KeyBefore == DT(10, 0)
KeyAt == DT(42, -8)
KeyAfter == DT(90, 0)

RecKeys(s) ==
    {KeyBefore, KeyAt, KeyAfter} \cup (IF s = "oncalls" THEN {None} ELSE {})

\* The keys of the records a page may list: any in a first sync, and in the
\* sync after it those of the records the API holds, the data being the same.
Served(s, r, up) == IF r = 1 THEN RecKeys(s) ELSE up

\* The keys of the records a sync may have been listed without emitting them:
\* those before the bookmark it started from, and an oncall without a start.
Unemitted(s, bookmark) ==
    {k \in RecKeys(s) : k = None \/ (bookmark /= None /\ Instant(k) < Instant(bookmark))}

\* An oncall record with a start comes from a schedule and has an end; one
\* without is a permanent on-call, with neither.
ScheduleIds == {"PA", "PB"}

Schedules(s, key) == IF s = "oncalls" /\ key /= None THEN ScheduleIds ELSE {""}

EndOf(s, key) == IF s = "oncalls" /\ key /= None THEN Plus(key, 12) ELSE None

\* until lies a little after the first window's end, or at the very start.
UntilChoices(s) ==
    {isoformat(DT(request_range_limit(s) + 2, 0)), isoformat(DT(0, 0))}

NowChoices(s) == {DT(request_range_limit(s) + 100, 0)}

SinceZ == isoformat(DT(0, 0))
SinceWest == isoformat(DT(0, -8))

\* A Python dict: the keys it holds and the value under each (a filler under
\* the keys it does not hold).
Dict(keys, val) == [keys |-> keys, val |-> val]

NoVal == [k \in ParamKeys |->
            CASE k \in {"limit", "offset"} -> 0
              [] k \in {"since", "until"} -> None
              [] OTHER -> ""]

EmptyDict == Dict({}, NoVal)

\* dict.get(key, default)
DictGet(d, k, default) == IF k \in d.keys THEN d.val[k] ELSE default

\* dict.update(e), and d[k] = v
Update(d, e) ==
    Dict(d.keys \cup e.keys, [k \in ParamKeys |-> IF k \in e.keys THEN e.val[k] ELSE d.val[k]])

Set(d, k, v) == Dict(d.keys \cup {k}, [d.val EXCEPT ![k] = v])

\* config['streams'].get(tap_stream_id): None (no entry), or a dict of overrides.
OverrideChoices(s) ==
    {[none |-> TRUE, dict |-> EmptyDict]}
    \cup {[none |-> FALSE, dict |-> d] : d \in
            {EmptyDict,
             Set(EmptyDict, "since", SinceWest),
             Set(EmptyDict, "query", "q"),
             Set(EmptyDict, "time_zone", "PST"),
             Set(EmptyDict, "limit", 25),
             Set(Set(EmptyDict, "since", SinceWest), "limit", 25)}
            \cup {Set(EmptyDict, "until", u) : u \in UntilChoices(s)}
            \cup {Set(Set(EmptyDict, "since", SinceWest), "until", u) : u \in UntilChoices(s)}}

\* The config dict: since, until and limit at the top level, and the overrides.
ConfigChoices(s) ==
    {[dict |-> d, streams |-> o] :
        d \in {EmptyDict,
                Set(EmptyDict, "since", SinceZ),
                Set(Set(EmptyDict, "since", SinceZ), "limit", 25),
                Set(Set(EmptyDict, "since", SinceZ), "until", isoformat(DT(0, 0)))},
        o \in OverrideChoices(s)}

\* A PagerdutyResponse: its iteration count, the more flag of its current page,
\* the records of that page still to come, the offsets of its follow-up
\* requests, the offset its first request carried, and, until its first page
\* is taken, the offset self.params held before that request was made up.
NoResponse == [iteration |-> 0, more |-> "false", left |-> 0, reqs |-> <<>>,
               first |-> 0, stale |-> 0]
NoSub == [kind |-> "", iteration |-> 0, more |-> "false", items |-> <<>>,
          first |-> 0, reqs |-> <<>>]
NoFetch == [status |-> "idle", err |-> "", tries |-> 0, itries |-> 0, attempts |-> 0,
            clk |-> 0, elapsed |-> 0, istart |-> 0, ielapsed |-> 0, hist |-> <<>>]
NoSubParams == [limit |-> 0, offset |-> 0]
NoRecord == [key |-> None, schedule |-> "", end |-> None, id |-> <<>>,
             log_entries |-> <<>>, alerts |-> <<>>, seen |-> FALSE]

Init ==
    /\ pc = "init"
    /\ stream \in AVAILABLE_STREAMS
    /\ now \in NowChoices(stream)
    /\ config \in ConfigChoices(stream)
    /\ params = EmptyDict
    /\ \E w \in {None, isoformat(PriorBookmark)} :
          state = [s \in IncrementalStreams |->
                      IF s = stream THEN w ELSE isoformat(PriorBookmark)]
    /\ current_bookmark_dtime = None
    /\ since_dtime = None
    /\ until_dtime = None
    /\ running_bookmark_dtime = None
    /\ top = NoResponse
    /\ record = NoRecord
    /\ substream_params = NoSubParams
    /\ sub = NoSub
    /\ err = ""
    /\ fetch = NoFetch
    /\ requested = FALSE
    /\ windows = <<>>
    /\ emittedKeys = {}
    /\ emitCount = 0
    /\ listed = <<>>
    /\ writeLog = <<>>
    /\ run = 1
    /\ upstream = {}
    /\ synced = {}

(***************************************************************************)
(* PagerdutyStream.__init__                                                *)
(***************************************************************************)
\* self.params as first assigned: "since" is always a key, None when the
\* config has none.
BaseParams(c) ==
    Dict({"limit", "offset", "since", "time_zone"},
         [NoVal EXCEPT !["limit"] = DictGet(c, "limit", DefaultLimit),
                       !["offset"] = 0,
                       !["since"] = DictGet(c, "since", None),
                       !["time_zone"] = "UTC"])

\* A slip: the keys __init__ itself puts into params pass as valid.
InvalidKeysLax(s, o) == o.keys \ (valid_params(s) \cup {"limit", "offset"})

\* The keys of the override that the class does not accept.
InvalidKeys(s, o) == o.keys \ valid_params(s)

\* The required parameters that are not keys of self.params.
MissingParams(s, p) == required_params(s) \ p.keys

Construct ==
    /\ pc = "init"
    /\ LET base == BaseParams(config.dict)
           o == config.streams
           bad == IF o.none THEN {} ELSE InvalidKeys(stream, o.dict)
           p1 == IF o.none THEN base ELSE Update(base, o.dict)
           missing == MissingParams(stream, p1)
           p2 == IF "until" \in missing THEN Set(p1, "until", isoformat(now)) ELSE p1
       IN IF bad /= {}
          THEN /\ pc' = "config_error"
               /\ err' = "RuntimeError"
               /\ params' = base
          ELSE IF missing \ {"until"} /= {}
          THEN /\ pc' = "config_error"
               /\ err' = "RuntimeError"
               /\ params' = p1
          ELSE /\ pc' = "ready"
               /\ err' = ""
               /\ params' = p2
    /\ UNCHANGED <<stream, now, config, state, current_bookmark_dtime, since_dtime,
                   until_dtime, running_bookmark_dtime, top, record,
                   substream_params, sub, fetch, requested, windows, emittedKeys,
                   emitCount, listed, writeLog, run, upstream, synced>>

(***************************************************************************)
(* What one _get call hands back to sync(): the parsed body of a 2xx       *)
(* response, or the exception it raises once it gives up.                  *)
(***************************************************************************)
\* The more flag of a page: true, false, or no boolean at all.
MoreChoices(pageNo) ==
    IF pageNo < MaxPages THEN {"true", "false", "absent"} ELSE {"false", "absent"}

GetErrors == {"HTTPError", "ConnectionError", "Timeout"}

\* Page pageNo of a stream's own endpoint: its more flag and the number of
\* records it lists (their keys are drawn as the loop reaches them).
GetResults(pageNo) ==
    {[ok |-> TRUE, err |-> "", more |-> m, left |-> n] :
        m \in MoreChoices(pageNo), n \in 0..MaxRecs}
    \cup {[ok |-> FALSE, err |-> e, more |-> "false", left |-> 0] : e \in GetErrors}

\* Page pageNo of a sub-resource: its items are tagged by the offset asked for.
SubResults(pageNo) ==
    {[ok |-> TRUE, err |-> "", more |-> m] : m \in MoreChoices(pageNo)}
    \cup {[ok |-> FALSE, err |-> e, more |-> "false"] : e \in GetErrors}

(***************************************************************************)
(* sync()                                                                  *)
(***************************************************************************)
\* singer.bookmarks.get_bookmark(state, tap_stream_id, replication_key): each
\* stream has one replication key, so its id stands for the pair.
get_bookmark(st, tap_stream_id) == st[tap_stream_id]

\* A slip: the bookmark is stored without regard to the stream.
write_bookmark_shared(st, tap_stream_id, val) == [s \in DOMAIN st |-> val]

\* singer.bookmarks.write_bookmark(state, tap_stream_id, replication_key, val)
write_bookmark(st, tap_stream_id, val) == [st EXCEPT ![tap_stream_id] = val]

\* A slip: the running bookmark falls back to an earlier key.
update_bookmark_earliest(bookmark, value) ==
    IF bookmark = None THEN value
    ELSE IF Instant(value) < Instant(bookmark) THEN value ELSE bookmark

\* A slip: the running bookmark stays at the first key it was given.
update_bookmark_first(bookmark, value) == IF bookmark = None THEN value ELSE bookmark

\* A slip: the running bookmark is overwritten by the latest record's key.
update_bookmark_latest(bookmark, value) == value

update_bookmark(bookmark, value) ==
    IF bookmark = None THEN value ELSE DtMax(bookmark, value)

\* A slip: > instead of >=.
PassesFilterStrict(bookmark, key) == bookmark = None \/ DtLess(bookmark, key)

\* The test that guards write_record in the incremental streams.
PassesFilter(bookmark, key) == bookmark = None \/ ~DtLess(key, bookmark)

\* A slip: write_record is left to the streams that keep a bookmark.
WritesIncrementalOnly(s, bookmark, key) ==
    s \notin FullTableStreams /\ PassesFilter(bookmark, key)

\* Whether the loop body of stream s calls write_record for a record: always
\* in the full-table streams, under the bookmark test in the others.
Writes(s, bookmark, key) == s \in FullTableStreams \/ PassesFilter(bookmark, key)

\* not record.get(self.replication_key): the start is missing or empty.
InvalidOncall(key) == key = None

\* A slip: the end is left out of the id.
OncallIdNoEnd(schedule_id, start, end) == <<schedule_id>> \o start

\* record['schedule']['id'] + record['start'] + record['end']
OncallId(schedule_id, start, end) == <<schedule_id>> \o start \o end

\* A slip: the range leaves the offset as the last page left it.
WindowRangeKeepOffset(since, until, limit) ==
    Dict({"since", "until"},
         [NoVal EXCEPT !["since"] = isoformat(since),
                       !["until"] = StrMin(isoformat(Plus(since, limit)), isoformat(until))])

\* The range dict of one window.
WindowRange(since, until, limit) ==
    Dict({"offset", "since", "until"},
         [NoVal EXCEPT !["offset"] = 0,
                       !["since"] = isoformat(since),
                       !["until"] = StrMin(isoformat(Plus(since, limit)), isoformat(until))])

\* self.params["offset"] += self.params["limit"]
NextOffset(offset, limit) == offset + limit

\* A slip: a null-safe isoformat, so that None is written as the bookmark.
BookmarkStrNullSafe(running) ==
    [raises |-> FALSE, val |-> IF running = None THEN None ELSE isoformat(running)]

\* running_bookmark_str = running_bookmark_dtime.isoformat(): raises on None.
BookmarkStr(running) ==
    IF running = None
    THEN [raises |-> TRUE, val |-> None]
    ELSE [raises |-> FALSE, val |-> isoformat(running)]

Raise(e) == pc' = "crashed" /\ err' = e

Locals == <<current_bookmark_dtime, since_dtime, until_dtime, running_bookmark_dtime>>
Emission == <<emittedKeys, emitCount, listed, writeLog>>
Fixed == <<stream, now, config, fetch, run, synced>>

\* Up to the while loop of an incremental sync, and up to the first page of a
\* full-table one.
SyncStart ==
    /\ pc = "ready"
    /\ IF stream \in IncrementalStreams
       THEN /\ UNCHANGED <<top, requested, listed>>
            /\ LET current_bookmark == get_bookmark(state, stream)
                   bookmark == IF current_bookmark /= None THEN parse(current_bookmark)
                               ELSE None
               IN IF bookmark = None /\ DictGet(params, "since", None) = None
                  THEN /\ Raise("TypeError")
                       /\ current_bookmark_dtime' = bookmark
                       /\ UNCHANGED <<since_dtime, until_dtime, running_bookmark_dtime>>
                  ELSE /\ pc' = "window"
                       /\ current_bookmark_dtime' = bookmark
                       /\ since_dtime' = IF bookmark /= None THEN bookmark
                                         ELSE parse(DictGet(params, "since", None))
                       /\ until_dtime' = parse(DictGet(params, "until", None))
                       /\ running_bookmark_dtime' = None
                       /\ err' = err
       ELSE /\ requested' = TRUE
            /\ \E res \in GetResults(1) :
                  IF res.ok
                  THEN /\ pc' = "next"
                       /\ top' = [iteration |-> 0, more |-> res.more, left |-> res.left,
                                  reqs |-> <<>>, first |-> params.val["offset"],
                                  stale |-> params.val["offset"]]
                       /\ listed' = Append(listed, res.left)
                       /\ err' = err
                  ELSE /\ Raise(res.err)
                       /\ top' = top
                       /\ listed' = listed
            /\ UNCHANGED Locals
    /\ UNCHANGED <<Fixed, upstream, params, state, record, substream_params, sub, windows,
                   emittedKeys, emitCount, writeLog>>

\* The while test, and for one more window: the range, params.update and
\* _list_resource.
Window ==
    /\ pc = "window"
    /\ IF DtLess(since_dtime, until_dtime)
       THEN LET range == WindowRange(since_dtime, until_dtime, request_range_limit(stream))
            IN /\ params' = Update(params, range)
               /\ windows' = Append(windows, <<range.val["since"], range.val["until"]>>)
               /\ requested' = TRUE
               /\ \E res \in GetResults(1) :
                     IF res.ok
                     THEN /\ pc' = "next"
                          /\ top' = [iteration |-> 0, more |-> res.more, left |-> res.left,
                                     reqs |-> <<>>, first |-> params'.val["offset"],
                                     stale |-> params.val["offset"]]
                          /\ err' = err
                     ELSE /\ Raise(res.err)
                          /\ top' = top
       ELSE /\ pc' = "write"
            /\ UNCHANGED <<params, windows, requested, top, err>>
    /\ UNCHANGED <<Fixed, upstream, state, Locals, record, substream_params, sub, Emission>>

\* PagerdutyResponse.__next__ on the stream's own endpoint, and what follows
\* the for loop when it stops.
NextPage ==
    /\ pc = "next"
    /\ LET iteration == top.iteration + 1
       IN IF iteration = 1
          THEN /\ top' = [top EXCEPT !.iteration = iteration, !.stale = 0]
               /\ pc' = "records"
               /\ UNCHANGED <<params, requested, since_dtime, err, listed>>
          ELSE IF top.more /= "true"
          THEN /\ top' = [top EXCEPT !.iteration = iteration]
               /\ IF stream \in IncrementalStreams
                  THEN /\ since_dtime' = Plus(since_dtime, request_range_limit(stream))
                       /\ pc' = "window"
                  ELSE /\ since_dtime' = since_dtime
                       /\ pc' = "done"
               /\ UNCHANGED <<params, requested, err, listed>>
          ELSE LET offset == NextOffset(params.val["offset"], params.val["limit"])
               IN /\ params' = Set(params, "offset", offset)
                  /\ requested' = TRUE
                  /\ since_dtime' = since_dtime
                  /\ \E res \in GetResults(iteration) :
                        IF res.ok
                        THEN /\ pc' = "records"
                             /\ top' = [top EXCEPT !.iteration = iteration,
                                                   !.more = res.more,
                                                   !.left = res.left,
                                                   !.reqs = Append(@, offset)]
                             /\ listed' = IF stream \in FullTableStreams
                                          THEN Append(listed, res.left) ELSE listed
                             /\ err' = err
                        ELSE /\ Raise(res.err)
                             /\ top' = [top EXCEPT !.iteration = iteration]
                             /\ listed' = listed
    /\ UNCHANGED <<Fixed, upstream, state, current_bookmark_dtime, until_dtime,
                   running_bookmark_dtime, record, substream_params, sub, windows,
                   emittedKeys, emitCount, writeLog>>

\* The body of "for record in page.get(...)" for one record, up to the first
\* _list_resource of an incident's sub-resources.
Record ==
    /\ pc = "records"
    /\ IF top.left = 0
       THEN /\ pc' = "next"
            /\ UNCHANGED <<top, record, running_bookmark_dtime, substream_params, sub,
                           requested, err, emittedKeys, emitCount, writeLog>>
       ELSE \E key \in Served(stream, run, upstream) : \E schedule \in Schedules(stream, key) :
               /\ top' = [top EXCEPT !.left = @ - 1]
               /\ record' = [key |-> key, schedule |-> schedule, end |-> EndOf(stream, key),
                             id |-> IF stream = "oncalls" /\ ~InvalidOncall(key)
                                    THEN OncallId(schedule, isoformat(key),
                                                  isoformat(EndOf(stream, key)))
                                    ELSE <<>>,
                             log_entries |-> <<>>, alerts |-> <<>>, seen |-> TRUE]
               /\ IF stream = "incidents"
                  THEN /\ substream_params' = [limit |-> SubstreamLimit, offset |-> 0]
                       /\ requested' = TRUE
                       /\ emitCount' = 0
                       /\ \E res \in SubResults(1) :
                             IF res.ok
                             THEN /\ pc' = "log_entries"
                                  /\ sub' = [kind |-> "log_entries", iteration |-> 0,
                                             more |-> res.more, items |-> <<0>>,
                                             first |-> 0, reqs |-> <<>>]
                                  /\ err' = err
                             ELSE /\ Raise(res.err)
                                  /\ sub' = sub
                       /\ UNCHANGED <<running_bookmark_dtime, emittedKeys, writeLog>>
                  ELSE /\ pc' = "records"
                       /\ IF stream = "oncalls" /\ InvalidOncall(key)
                          THEN /\ emitCount' = 0
                               /\ UNCHANGED <<running_bookmark_dtime, emittedKeys, writeLog>>
                          ELSE IF ~Writes(stream, current_bookmark_dtime, key)
                          THEN /\ emitCount' = 0
                               /\ UNCHANGED <<running_bookmark_dtime, emittedKeys, writeLog>>
                          ELSE IF stream \in FullTableStreams
                          THEN /\ emitCount' = 1
                               /\ emittedKeys' = emittedKeys \cup {key}
                               /\ writeLog' = Append(writeLog,
                                     <<top.iteration, listed[top.iteration] - top.left + 1>>)
                               /\ UNCHANGED running_bookmark_dtime
                          ELSE /\ emitCount' = 1
                               /\ emittedKeys' = emittedKeys \cup {key}
                               /\ running_bookmark_dtime' =
                                     update_bookmark(running_bookmark_dtime, key)
                               /\ writeLog' = writeLog
                       /\ UNCHANGED <<substream_params, sub, requested, err>>
    /\ UNCHANGED <<Fixed, upstream, params, state, current_bookmark_dtime, since_dtime,
                   until_dtime, windows, listed>>

\* One turn of "for page in ...log_entries": __next__ and the extend, and when
\* the loop stops, record['alerts'] = [] and the _list_resource of the alerts.
LogEntries ==
    /\ pc = "log_entries"
    /\ LET iteration == sub.iteration + 1
       IN IF iteration = 1
          THEN /\ sub' = [sub EXCEPT !.iteration = iteration]
               /\ record' = [record EXCEPT !.log_entries = @ \o sub.items]
               /\ UNCHANGED <<pc, substream_params, requested, err>>
          ELSE IF sub.more /= "true"
          THEN /\ requested' = TRUE
               /\ record' = [record EXCEPT !.alerts = <<>>]
               /\ substream_params' = substream_params
               /\ \E res \in SubResults(1) :
                     IF res.ok
                     THEN /\ pc' = "alerts"
                          /\ sub' = [kind |-> "alerts", iteration |-> 0, more |-> res.more,
                                     items |-> <<substream_params.offset>>,
                                     first |-> substream_params.offset, reqs |-> <<>>]
                          /\ err' = err
                     ELSE /\ Raise(res.err)
                          /\ sub' = [sub EXCEPT !.iteration = iteration]
          ELSE LET offset == NextOffset(substream_params.offset, substream_params.limit)
               IN /\ substream_params' = [substream_params EXCEPT !.offset = offset]
                  /\ requested' = TRUE
                  /\ \E res \in SubResults(iteration) :
                        IF res.ok
                        THEN /\ sub' = [sub EXCEPT !.iteration = iteration,
                                                   !.more = res.more,
                                                   !.items = <<offset>>,
                                                   !.reqs = Append(@, offset)]
                             /\ record' = [record EXCEPT !.log_entries = Append(@, offset)]
                             /\ UNCHANGED <<pc, err>>
                        ELSE /\ Raise(res.err)
                             /\ sub' = [sub EXCEPT !.iteration = iteration]
                             /\ record' = record
    /\ UNCHANGED <<Fixed, upstream, params, state, Locals, top, windows, Emission>>

\* One turn of "for page in ...alerts": __next__, the extend, and the filter
\* and write_record that the loop body holds.
Alerts ==
    /\ pc = "alerts"
    /\ LET iteration == sub.iteration + 1
           passes == PassesFilter(current_bookmark_dtime, record.key)
           running == IF passes
                      THEN update_bookmark(running_bookmark_dtime, record.key)
                      ELSE running_bookmark_dtime
           keys == IF passes THEN emittedKeys \cup {record.key} ELSE emittedKeys
           count == IF passes THEN emitCount + 1 ELSE emitCount
       IN IF iteration = 1
          THEN /\ sub' = [sub EXCEPT !.iteration = iteration]
               /\ record' = [record EXCEPT !.alerts = @ \o sub.items]
               /\ running_bookmark_dtime' = running
               /\ emittedKeys' = keys
               /\ emitCount' = count
               /\ UNCHANGED <<pc, substream_params, requested, err>>
          ELSE IF sub.more /= "true"
          THEN /\ pc' = "records"
               /\ sub' = NoSub
               /\ UNCHANGED <<record, running_bookmark_dtime, substream_params, requested,
                              err, emittedKeys, emitCount>>
          ELSE LET offset == NextOffset(substream_params.offset, substream_params.limit)
               IN /\ substream_params' = [substream_params EXCEPT !.offset = offset]
                  /\ requested' = TRUE
                  /\ \E res \in SubResults(iteration) :
                        IF res.ok
                        THEN /\ sub' = [sub EXCEPT !.iteration = iteration,
                                                   !.more = res.more,
                                                   !.items = <<offset>>,
                                                   !.reqs = Append(@, offset)]
                             /\ record' = [record EXCEPT !.alerts = Append(@, offset)]
                             /\ running_bookmark_dtime' = running
                             /\ emittedKeys' = keys
                             /\ emitCount' = count
                             /\ UNCHANGED <<pc, err>>
                        ELSE /\ Raise(res.err)
                             /\ sub' = [sub EXCEPT !.iteration = iteration]
                             /\ UNCHANGED <<record, running_bookmark_dtime, emittedKeys,
                                            emitCount>>
    /\ UNCHANGED <<Fixed, upstream, params, state, current_bookmark_dtime, since_dtime,
                   until_dtime, top, windows, listed, writeLog>>

\* A slip: the running bookmark is committed as soon as a window is through,
\* ahead of the windows that are still to come.
WriteBookmarkPerWindow ==
    /\ pc = "window"
    /\ running_bookmark_dtime /= None
    /\ state[stream] /= isoformat(running_bookmark_dtime)
    /\ state' = [state EXCEPT ![stream] = isoformat(running_bookmark_dtime)]
    /\ UNCHANGED <<pc, err, Fixed, upstream, params, Locals, top, record, substream_params, sub,
                   requested, windows, Emission>>

\* After the while loop: isoformat and write_bookmark.
WriteBookmark ==
    /\ pc = "write"
    /\ LET running_bookmark_str == BookmarkStr(running_bookmark_dtime)
       IN IF running_bookmark_str.raises
          THEN /\ Raise("AttributeError")
               /\ state' = state
          ELSE /\ state' = write_bookmark(state, stream, running_bookmark_str.val)
               /\ pc' = "done"
               /\ err' = err
    /\ UNCHANGED <<Fixed, upstream, params, Locals, top, record, substream_params, sub, requested,
                   windows, Emission>>

Next ==
    \/ Construct
    \/ SyncStart
    \/ Window
    \/ NextPage
    \/ Record
    \/ LogEntries
    \/ Alerts
    \/ WriteBookmark

Spec == Init /\ [][Next]_vars

(***************************************************************************)
(* A second sync of an incremental stream, right after a first one that    *)
(* went through: the stream object is built anew from the same config and  *)
(* the state the first sync left, and the API holds the same records: the  *)
(* ones the first sync emitted, and any it may have been listed and left   *)
(* out.                                                                    *)
(***************************************************************************)
Rerun ==
    /\ pc = "done"
    /\ run = 1
    /\ stream \in IncrementalStreams
    /\ pc' = "init"
    /\ run' = 2
    /\ \E left_out \in SUBSET Unemitted(stream, current_bookmark_dtime) :
          upstream' = emittedKeys \cup left_out
    /\ params' = EmptyDict
    /\ current_bookmark_dtime' = None
    /\ since_dtime' = None
    /\ until_dtime' = None
    /\ running_bookmark_dtime' = None
    /\ top' = NoResponse
    /\ record' = NoRecord
    /\ substream_params' = NoSubParams
    /\ sub' = NoSub
    /\ err' = ""
    /\ requested' = FALSE
    /\ windows' = <<>>
    /\ emittedKeys' = {}
    /\ emitCount' = 0
    /\ UNCHANGED <<stream, now, config, state, fetch, listed, writeLog, synced>>

\* The configs of the two-sync runs: since at the top level, and until either
\* left to the construction time or set for the stream.
RerunConfigs(s) ==
    {[dict |-> Set(EmptyDict, "since", SinceZ), streams |-> o] :
        o \in {[none |-> TRUE, dict |-> EmptyDict]}
               \cup {[none |-> FALSE, dict |-> Set(EmptyDict, "until", u)] :
                        u \in UntilChoices(s)}}

InitRerun ==
    /\ Init
    /\ stream \in IncrementalStreams
    /\ config \in RerunConfigs(stream)

NextRerun == Next \/ Rerun

SpecRerun == InitRerun /\ [][NextRerun]_vars

(***************************************************************************)
(* One run of the tap over several incremental streams: when the sync of   *)
(* one stream has ended, returned or raised, the object of a stream not    *)
(* yet synced is built from the same config, which holds a since and no    *)
(* entry for any stream, and the same state dict.                          *)
(***************************************************************************)
StreamsConfig ==
    [dict |-> Set(EmptyDict, "since", SinceZ), streams |-> [none |-> TRUE, dict |-> EmptyDict]]

InitStreams ==
    /\ Init
    /\ stream \in IncrementalStreams
    /\ config = StreamsConfig

NextStream ==
    /\ pc \in {"done", "crashed"}
    /\ run = 1
    /\ stream \in IncrementalStreams
    /\ \E s \in IncrementalStreams \ (synced \cup {stream}) :
          /\ stream' = s
          /\ now' \in NowChoices(s)
    /\ synced' = synced \cup {stream}
    /\ pc' = "init"
    /\ params' = EmptyDict
    /\ current_bookmark_dtime' = None
    /\ since_dtime' = None
    /\ until_dtime' = None
    /\ running_bookmark_dtime' = None
    /\ top' = NoResponse
    /\ record' = NoRecord
    /\ substream_params' = NoSubParams
    /\ sub' = NoSub
    /\ err' = ""
    /\ requested' = FALSE
    /\ windows' = <<>>
    /\ emittedKeys' = {}
    /\ emitCount' = 0
    /\ UNCHANGED <<config, state, fetch, listed, writeLog, run, upstream>>

NextStreams == Next \/ NextStream

SpecStreams == InitStreams /\ [][NextStreams]_vars

(***************************************************************************)
(* _get, attempt by attempt.  The function is wrapped twice by             *)
(* backoff.on_exception: the inner wrapper retries ConnectionError and     *)
(* Timeout, the outer one retries HTTPError unless is_fatal_code.  Each    *)
(* wrapper reads the time elapsed since it was entered at the top of a     *)
(* try, gives up on a failure when that reading has reached max_time, and  *)
(* otherwise sleeps for a jittered Fibonacci wait.  The clock is in        *)
(* seconds.                                                                *)
(***************************************************************************)
\* A slip: 429 is not excepted.
is_fatal_code_any4xx(status_code) == 400 <= status_code /\ status_code < 500

is_fatal_code(status_code) == 400 <= status_code /\ status_code < 500 /\ status_code /= 429

\* What one HTTP attempt can come to: a status, or a network-level failure.
Http(status_code) == [kind |-> "HTTPError", status_code |-> status_code]
Network(kind) == [kind |-> kind, status_code |-> 0]
Outcomes == {Http(200), Http(404), Http(429), Http(500),
             Network("ConnectionError"), Network("Timeout")}

\* response.raise_for_status()
RaisesForStatus(o) == o.kind = "HTTPError" /\ o.status_code >= 400

\* Seconds one attempt may take.
AttemptSecs == {1, 120}

\* backoff.fibo
RECURSIVE fibo(_)
fibo(n) == IF n <= 2 THEN 1 ELSE fibo(n - 1) + fibo(n - 2)

\* The waits backoff may sleep before try number n + 1: full jitter over the
\* Fibonacci value, cut to the time left.
Waits(n, elapsed) ==
    LET value == fibo(n)
        left == MaxTime - elapsed
    IN {0, IF value < left THEN value ELSE left}

\* A slip: the budget is spent as soon as any time has passed.
max_time_exceeded_early(elapsed) == elapsed > 0

\* Whether a wrapper gives up on a failure of the try that read `elapsed`.
max_time_exceeded(elapsed) == elapsed >= MaxTime

EnterGet == [status |-> "trying", err |-> "", tries |-> 1, itries |-> 1, attempts |-> 0,
             clk |-> 0, elapsed |-> 0, istart |-> 0, ielapsed |-> 0, hist |-> <<>>]

\* fetch after one more attempt that took dur seconds and came to o, with
\* wait the sleep chosen should a wrapper back off.  hist keeps, per attempt,
\* its outcome and the elapsed time read by the wrapper that handles it.
AfterAttempt(f, o, dur, wait) ==
    LET clk == f.clk + dur
        attempts == f.attempts + 1
    IN IF ~RaisesForStatus(o) /\ o.kind = "HTTPError"
       THEN [f EXCEPT !.status = "returned", !.clk = clk, !.attempts = attempts,
                      !.hist = Append(@, [o |-> o, elapsed |-> f.elapsed])]
       ELSE IF o.kind /= "HTTPError"
       THEN IF max_time_exceeded(f.ielapsed)
            THEN [f EXCEPT !.status = "raised", !.err = o.kind, !.clk = clk,
                           !.attempts = attempts,
                           !.hist = Append(@, [o |-> o, elapsed |-> f.ielapsed])]
            ELSE [f EXCEPT !.clk = clk + wait, !.attempts = attempts,
                           !.itries = @ + 1,
                           !.ielapsed = clk + wait - f.istart,
                           !.hist = Append(@, [o |-> o, elapsed |-> f.ielapsed])]
       ELSE IF is_fatal_code(o.status_code) \/ max_time_exceeded(f.elapsed)
            THEN [f EXCEPT !.status = "raised", !.err = "HTTPError", !.clk = clk,
                           !.attempts = attempts,
                           !.hist = Append(@, [o |-> o, elapsed |-> f.elapsed])]
            ELSE [f EXCEPT !.clk = clk + wait, !.attempts = attempts,
                           !.tries = @ + 1,
                           !.elapsed = clk + wait,
                           !.itries = 1,
                           !.istart = clk + wait,
                           !.ielapsed = 0,
                           !.hist = Append(@, [o |-> o, elapsed |-> f.elapsed])]

Rest == <<pc, stream, now, config, params, state, current_bookmark_dtime,
          since_dtime, until_dtime, running_bookmark_dtime, top, record,
          substream_params, sub, err, requested, windows, emittedKeys, emitCount,
          listed, writeLog, run, upstream, synced>>

\* A call of _get begins.
GetCall ==
    /\ fetch.status \in {"idle", "returned", "raised"}
    /\ fetch' = EnterGet
    /\ UNCHANGED Rest

\* requests.get, raise_for_status, and what the wrappers make of the result.
GetAttempt ==
    /\ fetch.status = "trying"
    /\ fetch.attempts < MaxTries
    /\ \E o \in Outcomes, dur \in AttemptSecs :
          \E wait \in Waits(IF o.kind = "HTTPError" THEN fetch.tries ELSE fetch.itries,
                            IF o.kind = "HTTPError" THEN fetch.elapsed ELSE fetch.ielapsed) :
             fetch' = AfterAttempt(fetch, o, dur, wait)
    /\ UNCHANGED Rest

InitGet ==
    /\ pc = "get"
    /\ stream = "incidents"
    /\ now = DT(0, 0)
    /\ config = [dict |-> EmptyDict, streams |-> [none |-> TRUE, dict |-> EmptyDict]]
    /\ params = BaseParams(EmptyDict)
    /\ state = [s \in IncrementalStreams |-> None]
    /\ current_bookmark_dtime = None
    /\ since_dtime = None
    /\ until_dtime = None
    /\ running_bookmark_dtime = None
    /\ top = NoResponse
    /\ record = NoRecord
    /\ substream_params = NoSubParams
    /\ sub = NoSub
    /\ err = ""
    /\ fetch = NoFetch
    /\ requested = FALSE
    /\ windows = <<>>
    /\ emittedKeys = {}
    /\ emitCount = 0
    /\ listed = <<>>
    /\ writeLog = <<>>
    /\ run = 1
    /\ upstream = {}
    /\ synced = {}

NextGet == GetCall \/ GetAttempt

SpecGet == InitGet /\ [][NextGet]_vars
(***************************************************************************)
(* The claims.                                                             *)
(***************************************************************************)
\* The points of sync() at which the loop body is through with `record`.
BetweenRecords == pc \in {"records", "next", "window", "write", "done"}

\* C1: whenever an incremental sync writes its bookmark, the value written is
\* no earlier than the bookmark read at the start of the sync (if there was
\* one) and no earlier than the replication key of any record it emitted.
C1_WatermarkMonotone ==
    (pc = "done" /\ stream \in IncrementalStreams) =>
        LET written == parse(state[stream])
        IN /\ current_bookmark_dtime /= None =>
                 Instant(written) >= Instant(current_bookmark_dtime)
           /\ \A k \in emittedKeys : Instant(written) >= Instant(k)

\* C1's case: a finished sync that started from a bookmark and emitted
\* records with different keys.
C1_Witness ==
    /\ pc = "done"
    /\ stream = "notifications"
    /\ current_bookmark_dtime /= None
    /\ Cardinality(emittedKeys) >= 2

\* C2: when an incremental sync started from a stored bookmark W and no record
\* passed the filter, the bookmark stored once the run is over is still W.
C2_BookmarkKept ==
    (/\ stream \in IncrementalStreams
     /\ pc \in {"done", "crashed"}
     /\ current_bookmark_dtime /= None
     /\ emittedKeys = {}) =>
        state[stream] = isoformat(PriorBookmark)

\* C2's case: the run went through its windows, saw a record, emitted none,
\* and ended at the bookmark write.
C2_Witness ==
    /\ stream \in IncrementalStreams
    /\ pc = "crashed"
    /\ err = "AttributeError"
    /\ current_bookmark_dtime /= None
    /\ record.seen
    /\ emittedKeys = {}

\* C3: a record the API returned (with a replication key) is emitted if and
\* only if there was no bookmark or its key is no earlier than the bookmark;
\* none with an earlier key is ever emitted.
C3_BookmarkFilter ==
    /\ (/\ stream \in IncrementalStreams
        /\ BetweenRecords
        /\ record.seen
        /\ record.key /= None) =>
           (emitCount > 0 <=>
               (\/ current_bookmark_dtime = None
                \/ Instant(record.key) >= Instant(current_bookmark_dtime)))
    /\ (stream \in IncrementalStreams /\ current_bookmark_dtime /= None) =>
           \A k \in emittedKeys : Instant(k) >= Instant(current_bookmark_dtime)

\* C3's case: a record whose key is exactly the bookmark's instant was emitted.
C3_Witness ==
    /\ stream \in IncrementalStreams
    /\ BetweenRecords
    /\ current_bookmark_dtime /= None
    /\ record.seen
    /\ record.key /= None
    /\ Instant(record.key) = Instant(current_bookmark_dtime)
    /\ emitCount > 0

\* C4: within one sync, each record the API returned is written to the record
\* sink at most once.
C4_EmittedAtMostOnce == emitCount <= 1

\* C5: a PagerdutyResponse yields its first page without a request, and its
\* follow-up requests carry the offsets limit, 2*limit, ... in that order, one
\* per further page.
C5_PaginationOffsets ==
    /\ \A i \in 1..Len(top.reqs) : top.reqs[i] = i * params.val["limit"]
    /\ \A i \in 1..Len(sub.reqs) : sub.reqs[i] = i * substream_params.limit
    /\ pc = "records" => Len(top.reqs) = top.iteration - 1
    /\ (pc \in {"log_entries", "alerts"} /\ sub.iteration >= 1) =>
           Len(sub.reqs) = sub.iteration - 1

\* The since the windows of the run are to start from: the bookmark if there
\* is one, else the configured since.
EffectiveSince ==
    IF current_bookmark_dtime /= None THEN current_bookmark_dtime
    ELSE parse(IF ~config.streams.none /\ "since" \in config.streams.dict.keys
               THEN config.streams.dict.val["since"]
               ELSE config.dict.val["since"])

Min(a, b) == IF a < b THEN a ELSE b

\* C6: the (since, until) pairs sent window after window start at the effective
\* since, have starts exactly maxSpan apart, and each ends at
\* min(start + maxSpan, until), so that none ends after until.
C6_WindowPlan ==
    \A i \in 1..Len(windows) :
        LET start == Instant(parse(windows[i][1]))
            end == Instant(parse(windows[i][2]))
            span == request_range_limit(stream)
        IN /\ i = 1 => start = Instant(EffectiveSince)
           /\ i > 1 => start = Instant(parse(windows[i - 1][1])) + span
           /\ end = Min(start + span, Instant(until_dtime))
           /\ end <= Instant(until_dtime)
           /\ end - start <= span

TransientOutcome(o) ==
    \/ o.kind \in {"ConnectionError", "Timeout"}
    \/ o.kind = "HTTPError" /\ (o.status_code = 429 \/ o.status_code >= 500)

FatalOutcome(o) ==
    /\ o.kind = "HTTPError"
    /\ o.status_code >= 400 /\ o.status_code < 500 /\ o.status_code /= 429

\* C7: an attempt that returns a 4xx other than 429 ends the call at once with
\* that error, so a 404 on the first attempt makes one request in all; a 429,
\* a 5xx or a network failure on the first attempt does not end the call.
C7_FatalClassification ==
    LET h == fetch.hist
    IN /\ \A i \in 1..Len(h) :
             FatalOutcome(h[i].o) =>
                 /\ i = Len(h)
                 /\ fetch.status = "raised"
                 /\ fetch.err = "HTTPError"
                 /\ fetch.attempts = i
       /\ (Len(h) = 1 /\ TransientOutcome(h[1].o)) =>
             (fetch.status = "trying" /\ fetch.attempts = 1)

\* C7's case: a 404 on the first attempt, and the call has raised.
C7_Witness ==
    /\ fetch.status = "raised"
    /\ fetch.attempts = 1
    /\ fetch.hist[1].o = Http(404)

\* C8: two transient failures in a row, each within the retry budget, and then
\* a 2xx: the call returns after exactly three attempts.
C8_RetryToSuccess ==
    LET h == fetch.hist
    IN (/\ Len(h) >= 2
        /\ TransientOutcome(h[1].o) /\ h[1].elapsed < MaxTime
        /\ TransientOutcome(h[2].o) /\ h[2].elapsed < MaxTime) =>
           /\ Len(h) = 2 => (fetch.status = "trying" /\ fetch.attempts = 2)
           /\ (Len(h) >= 3 /\ h[3].o = Http(200)) =>
                 (fetch.status = "returned" /\ fetch.attempts = 3 /\ Len(h) = 3)

\* C8's case: a network failure, then a 5xx, then a 200, and the call returned.
C8_Witness ==
    /\ fetch.status = "returned"
    /\ Len(fetch.hist) = 3
    /\ fetch.hist[1].o.kind \in {"ConnectionError", "Timeout"}
    /\ fetch.hist[2].o = Http(500)
    /\ fetch.hist[3].o = Http(200)

\* C9: an override with a key outside valid_params makes construction fail
\* with a configuration error, before any request and with none of the
\* overrides applied.
C9_ConfigValidation ==
    (/\ pc /= "init"
     /\ ~config.streams.none
     /\ config.streams.dict.keys \ valid_params(stream) /= {}) =>
        /\ pc = "config_error"
        /\ err = "RuntimeError"
        /\ ~requested
        /\ params = BaseParams(config.dict)

\* C9's case: an override with a valid key and an invalid one was rejected.
C9_Witness ==
    /\ pc = "config_error"
    /\ ~config.streams.none
    /\ "since" \in config.streams.dict.keys
    /\ "limit" \in config.streams.dict.keys
    /\ params.val["since"] /= config.streams.dict.val["since"]

\* C10: once an incremental stream is constructed, every required parameter
\* holds an actual value; a config without any since is rejected at
\* construction.
C10_RequiredParams ==
    (stream \in IncrementalStreams /\ pc \notin {"init", "config_error"}) =>
        \A k \in required_params(stream) :
            k \in params.keys /\ params.val[k] /= None

\* The bookmark of the stream as sync() found it: what get_bookmark returned.
StartBookmark ==
    IF current_bookmark_dtime = None THEN None ELSE isoformat(current_bookmark_dtime)

\* C11: an incremental sync that a failed request aborts, at whatever window,
\* page or sub-request, leaves the stream's bookmark as it was when the sync
\* started; the bookmark is changed only by the one write that ends the sync,
\* after the while loop has run out of windows.
C11_NoPartialBookmark ==
    (stream \in IncrementalStreams /\ pc \notin {"init", "config_error", "ready"}) =>
        /\ (pc = "crashed" /\ err \in GetErrors) => state[stream] = StartBookmark
        /\ pc /= "done" => state[stream] = StartBookmark
        /\ pc = "done" => (err = "" /\ ~DtLess(since_dtime, until_dtime))

\* C11's case: a request failed in the second window, after records of the
\* first had been emitted.
C11_Witness ==
    /\ stream \in IncrementalStreams
    /\ pc = "crashed"
    /\ err = "HTTPError"
    /\ Len(windows) = 2
    /\ emittedKeys /= {}
    /\ running_bookmark_dtime /= None
\* The records of page p, which lists n of them, in the order it lists them.
PageRecords(p, n) == [i \in 1..n |-> <<p, i>>]

\* The records of the pages from p on, page after page.
RECURSIVE InPageOrder(_, _)
InPageOrder(sizes, p) ==
    IF p > Len(sizes) THEN <<>>
    ELSE PageRecords(p, sizes[p]) \o InPageOrder(sizes, p + 1)

\* C12: a full-table sync writes every record of every page it fetched exactly
\* once and in page order, whatever the record holds: what has been written
\* is always the listing of the fetched pages up to the record the loop has
\* reached, and all of it once the sync is done; the bookmarks are neither
\* read nor changed.
C12_FullTable ==
    stream \in FullTableStreams =>
        LET all == InPageOrder(listed, 1)
        IN /\ writeLog = SubSeq(all, 1, Len(all) - top.left)
           /\ pc = "done" => (writeLog = all /\ top.more /= "true")
           /\ state = [s \in IncrementalStreams |-> isoformat(PriorBookmark)]
           /\ current_bookmark_dtime = None
           /\ running_bookmark_dtime = None

\* C12's case: a finished full-table sync of two pages, two records on each.
C12_Witness ==
    /\ stream \in FullTableStreams
    /\ pc = "done"
    /\ listed = <<2, 2>>
    /\ Len(writeLog) = 4
\* C13: in a sync that follows a completed one, with the API holding the
\* same records, every record emitted has a key no earlier than the stored
\* bookmark W, and once that sync is over the stored bookmark is still W.
C13_RerunIdempotent ==
    (run = 2 /\ pc \notin {"init", "config_error", "ready"}) =>
        /\ \A k \in emittedKeys : Instant(k) >= Instant(current_bookmark_dtime)
        /\ pc \in {"done", "crashed"} => state[stream] = StartBookmark

\* C13's case: the second sync went through, re-emitting the record at W
\* after having been served an older one.
C13_Witness ==
    /\ run = 2
    /\ pc = "done"
    /\ Cardinality(upstream) >= 2
    /\ emittedKeys = {parse(state[stream])}
    /\ emitCount = 0
\* The whole of a sub-resource, page after page: the items at offsets 0,
\* limit, 2*limit, ...
FromTheStart(items) ==
    \A i \in 1..Len(items) : items[i] = (i - 1) * SubstreamLimit

\* C14: an incident that has been emitted was emitted with all the pages of
\* its log_entries and all the pages of its alerts in place: none is emitted
\* while the page just read says there are more, and both lists start at the
\* first page of their sub-resource.
C14_EnrichedBeforeEmission ==
    (stream = "incidents" /\ pc = "alerts" /\ emitCount > 0) =>
        /\ sub.more /= "true"
        /\ FromTheStart(record.log_entries)
        /\ FromTheStart(record.alerts)

\* C15: the first request of an incident's log_entries and the first request
\* of its alerts both carry offset 0, however many pages were read before.
C15_IndependentSubRequests ==
    (stream = "incidents" /\ sub.kind \in {"log_entries", "alerts"}) => sub.first = 0
\* C16: an incremental sync whose range is empty sends no request and emits
\* nothing, and neither it nor any other sync in which no record passes the
\* filter ends in an exception of its own making: sync() returns.
C16_EmptyRangeReturns ==
    stream \in IncrementalStreams =>
        /\ (/\ pc \in {"write", "done", "crashed"}
            /\ since_dtime /= None
            /\ windows = <<>>) => (~requested /\ emittedKeys = {})
        /\ (pc = "crashed" /\ emittedKeys = {} /\ since_dtime /= None) =>
               err \in GetErrors
\* C17: the time a _get call has taken, attempts and waits together, is never
\* more than max_time, whether the call is still trying, has returned or has
\* raised.
C17_RetryBudget == fetch.clk <= MaxTime
\* C18: an oncall record without a start is passed over: it is not emitted,
\* it leaves the running bookmark alone, the loop goes on to the records the
\* page still holds, and no exception comes of it; an oncall record that is
\* emitted carries the id schedule id + start + end.
C18_OncallRecords ==
    (stream = "oncalls" /\ record.seen) =>
        /\ None \notin emittedKeys
        /\ running_bookmark_dtime /= None => running_bookmark_dtime \in emittedKeys
        /\ record.key = None =>
              /\ emitCount = 0
              /\ (top.iteration >= 1 /\ top.left > 0) => pc = "records"
              /\ pc = "crashed" => err \in GetErrors \cup {"AttributeError"}
        /\ (record.key /= None /\ emitCount > 0) =>
              record.id = <<record.schedule>> \o isoformat(record.key)
                                             \o isoformat(record.end)

\* C18's case: after a record was emitted, a record without a start has been
\* passed over, and the loop stands at the record the page lists after it.
C18_Witness ==
    /\ stream = "oncalls"
    /\ pc = "records"
    /\ record.seen
    /\ record.key = None
    /\ emitCount = 0
    /\ top.left > 0
    /\ emittedKeys /= {}
    /\ running_bookmark_dtime \in emittedKeys
\* C19: the first request of every window of an incremental sync carries
\* offset 0, whatever offset the pages of the window before left in
\* self.params, and the requests for the further pages of the window carry
\* limit, 2*limit, ... in that order.
C19_OffsetResetPerWindow ==
    stream \in IncrementalStreams =>
        /\ top.first = 0
        /\ \A i \in 1..Len(top.reqs) : top.reqs[i] = i * params.val["limit"]
        /\ pc = "records" => params.val["offset"] = Len(top.reqs) * params.val["limit"]

\* C19's case: the second window has sent its first request, with offset 0,
\* while self.params held the offset of the first window's last page.
C19_Witness ==
    /\ stream \in IncrementalStreams
    /\ Len(windows) = 2
    /\ pc = "next"
    /\ top.iteration = 0
    /\ top.stale > 0
    /\ top.first = 0
    /\ params.val["offset"] = 0
\* The until the config asks for: the stream's own if it has one, else the
\* one at the top level of the config, else the time of construction.
ConfiguredUntil ==
    IF ~config.streams.none /\ "until" \in config.streams.dict.keys
    THEN config.streams.dict.val["until"]
    ELSE IF "until" \in config.dict.keys THEN config.dict.val["until"]
    ELSE isoformat(now)

\* C20: the windows of an incremental sync start at the stored bookmark, or
\* without one at the configured since, and run up to the configured until:
\* the stream's override, else the top-level value, else the construction
\* time.
C20_EffectiveRange ==
    (stream \in IncrementalStreams /\ until_dtime /= None) =>
        /\ until_dtime = parse(ConfiguredUntil)
        /\ windows /= <<>> => parse(windows[1][1]) = EffectiveSince
        /\ (pc \in {"write", "done"} /\ windows /= <<>>) =>
              Instant(parse(windows[Len(windows)][2])) = Instant(parse(ConfiguredUntil))
\* The streams whose sync() has not been called in this run of the tap.
Unsynced == IncrementalStreams \ (synced \cup {stream})

\* C21: the sync of an incremental stream reads the bookmark of its own
\* stream and no step of it changes the bookmark of another; so, after the
\* syncs of several streams over one state, the bookmark of every stream
\* that was not synced is the one it had.
C21_OwnBookmarkOnly ==
    /\ [](\A s \in Unsynced : state[s] = isoformat(PriorBookmark))
    /\ []((/\ stream \in IncrementalStreams
           /\ pc \notin {"init", "config_error", "ready", "done"}) =>
              StartBookmark = state[stream])
    /\ [][\A s \in IncrementalStreams \ {stream} : state'[s] = state[s]]_vars

\* C21's case: two streams were synced one after the other, each wrote its
\* own bookmark, and the third stream was not synced.
C21_Witness ==
    /\ pc = "done"
    /\ Cardinality(synced) = 1
    /\ Unsynced /= {}
    /\ state[stream] /= isoformat(PriorBookmark)
    /\ \A s \in synced :
          state[s] /= isoformat(PriorBookmark) /\ state[s] /= state[stream]

\* C22: at every point of an incremental sync the running bookmark is None
\* exactly when nothing has been emitted yet in this sync, and is otherwise
\* the latest of the keys emitted so far, whatever bookmark was stored; as
\* the emitted keys only grow, it never moves back.
C22_RunningBookmark ==
    (stream \in IncrementalStreams /\ pc \notin {"init", "config_error", "ready"}) =>
        /\ running_bookmark_dtime = None <=> emittedKeys = {}
        /\ running_bookmark_dtime /= None =>
              /\ running_bookmark_dtime \in emittedKeys
              /\ \A k \in emittedKeys : Instant(k) <= Instant(running_bookmark_dtime)

\* C22's case: a sync that started from a stored bookmark emitted the latest
\* key first and an earlier one after it, and the running bookmark is the
\* latest still.
C22_Witness ==
    /\ stream \in IncrementalStreams
    /\ pc = "records"
    /\ current_bookmark_dtime /= None
    /\ emitCount > 0
    /\ record.key = KeyAt
    /\ emittedKeys = {KeyAt, KeyAfter}
    /\ running_bookmark_dtime = KeyAfter
====

